---- MODULE Spec2Model ----
(***************************************************************************)
(* Model of package nanboxing (boxing.go): a Box is a float64 whose 64-bit *)
(* pattern either is an ordinary double or is a NaN carrying a 4-bit tag   *)
(* and a 47-bit payload.                                                   *)
(*                                                                         *)
(* A uint64 is modelled as the set of the positions of its 1 bits (bit 0   *)
(* is the least significant one), so that the width is exact: AND is       *)
(* intersection, OR is union, a shift moves the positions and drops those  *)
(* that leave 0..63.  int32 values are ordinary integers.                  *)
(***************************************************************************)
EXTENDS Integers, Sequences, FiniteSets

VARIABLES
    box,    \* the Box variable under test: its 64-bit pattern
    ctor,   \* the constructor call that produced box, with its argument
    hist,   \* the mutator calls applied to box since, oldest first
    mem     \* the memory cell the last reference constructor took the address of

vars == <<box, ctor, hist, mem>>

\* The longest sequence of mutator calls applied to one constructed Box.
MaxMutations == 2

(***************************************************************************)
(* 64-bit words                                                            *)
(***************************************************************************)
WordBits == 0..63

\* The uint64 whose value is the natural number n < 2^31.
Bits(n) == {i \in 0..30 : (n \div (2^i)) % 2 = 1}

\* u << k and u >> k on uint64.
Shl(u, k) == {i + k : i \in u} \cap WordBits

Shr(u, k) == {i - k : i \in {j \in u : j >= k}}

And(u, v) == u \cap v

Or(u, v) == u \cup v

\* The value of a word that fits 31 bits.
RECURSIVE Weight(_)
Weight(u) ==
    IF u = {} THEN 0
    ELSE LET i == CHOOSE j \in u : TRUE
         IN  2^i + Weight(u \ {i})

(***************************************************************************)
(* Constants of boxing.go                                                  *)
(***************************************************************************)
TagNumber == Bits(1)

tagString == Bits(2)

TagBool == Bits(3)

TagArray == Bits(4)

TagObject == Bits(5)

TagNull == Bits(15)

TagMask == Bits(15)

\* 0x7FF8000000000000
NaNMask == 51..62

\* 0x00007FFFFFFFFFFF
PayloadMask == 0..46

TagShift == 47

MaxInt32 == 2147483647

MinInt32 == (-2147483647) - 1

(***************************************************************************)
(* Conversions                                                             *)
(***************************************************************************)
\* Uint32 with the sign bit masked off (n & 0x7FFFFFFF).
Uint32_DropSign(n) == {i \in 0..30 : (n \div (2^i)) % 2 = 1}

\* *(*uint32)(unsafe.Pointer(&n)): the two's-complement pattern of an int32.
Uint32(n) ==
    {i \in 0..30 : (n \div (2^i)) % 2 = 1} \cup (IF n < 0 THEN {31} ELSE {})

\* int32(u): the low 32 bits of a uint64 read as a signed integer.
Int32(u) ==
    LET low == Weight(u \cap (0..30))
    IN  IF 31 \in u THEN (low - 2147483647) - 1 ELSE low

\* Uint8 with true stored as 0xFF.
Uint8_AllOnes(b) == IF b THEN Bits(255) ELSE Bits(0)

\* *(*uint8)(unsafe.Pointer(&b)): a Go bool is one byte, 1 for true.
Uint8(b) == IF b THEN Bits(1) ELSE Bits(0)

\* math.IsNaN: all exponent bits set and a non-zero mantissa.
IsNaN(f) == (52..62) \subseteq f /\ f \cap (0..51) # {}

(***************************************************************************)
(* Tag and payload                                                         *)
(***************************************************************************)
Tag(x) == And(Shr(x, TagShift), TagMask)

Payload(x) == And(x, PayloadMask)

\* SetTag without the payload term.
SetTag_ClearPayload(x, t) == Or(NaNMask, Shl(t, TagShift))

\* SetTag without the NaNMask term.
SetTag_NoNaNMask(x, t) == Or(Shl(t, TagShift), And(Payload(x), PayloadMask))

\* The value *x holds after x.SetTag(t).
SetTag(x, t) ==
    Or(Or(NaNMask, Shl(t, TagShift)), And(Payload(x), PayloadMask))

\* SetPayload without the tag term.
SetPayload_DropTag(x, u) == Or(NaNMask, And(u, PayloadMask))

\* SetPayload without the mask on u.
SetPayload_NoMask(x, u) == Or(Or(NaNMask, Shl(Tag(x), TagShift)), u)

\* The value *x holds after x.SetPayload(u).
SetPayload(x, u) ==
    Or(Or(NaNMask, Shl(Tag(x), TagShift)), And(u, PayloadMask))

(***************************************************************************)
(* Floats                                                                  *)
(***************************************************************************)
\* Box(f): Box and float64 share the representation.
NewFloat(f) == f

ToFloat(x) == x

\* IsFloat64 testing the quiet-NaN prefix instead of math.IsNaN.
IsFloat64_QuietOnly(x) == ~(NaNMask \subseteq ToFloat(x))

IsFloat64(x) == ~IsNaN(ToFloat(x))

(***************************************************************************)
(* Numbers, booleans, null                                                 *)
(***************************************************************************)
NewNumber(n) ==
    Or(Or(NaNMask, Shl(TagNumber, TagShift)), And(Uint32(n), PayloadMask))

ToNumber(x) == Int32(Payload(x))

\* IsNumber without the float test.
IsNumber_NoFloatGuard(x) == Tag(x) = TagNumber

IsNumber(x) == ~IsFloat64(x) /\ Tag(x) = TagNumber

NewBool(b) ==
    Or(Or(NaNMask, Shl(TagBool, TagShift)), And(Uint8(b), PayloadMask))

ToBool(x) == ~(Bits(0) = Payload(x))

IsBool(x) == ~IsFloat64(x) /\ Tag(x) = TagBool

NewNull == Or(Or(NaNMask, Shl(TagNull, TagShift)), And(Bits(0), PayloadMask))

IsNull(x) == ~IsFloat64(x) /\ Tag(x) = TagNull

(***************************************************************************)
(* References: strings, arrays, objects                                    *)
(*                                                                         *)
(* NewString, NewArray and NewObject box the address of their own          *)
(* parameter (&s, &a, &o), converted to uintptr.  A uintptr does not keep  *)
(* the variable alive and is not updated when the stack moves, so once the *)
(* constructor has returned the cell at that address may be reused.  mem   *)
(* holds that one cell, keyed by its address; ReuseFrame overwrites it.    *)
(***************************************************************************)
\* What a read finds in memory that no longer (or never) held the referent.
Junk == [kind |-> "junk", val |-> 0]

StringCell(s) == [kind |-> "string", val |-> s]

ArrayCell(a) == [kind |-> "array", val |-> a]

ObjectCell(o) == [kind |-> "object", val |-> o]

NoCell == [p \in {} |-> Junk]

\* *(*T)(unsafe.Pointer(uintptr(p))): the cell found at address p.
Deref(p) == IF p \in DOMAIN mem THEN mem[p] ELSE Junk

\* p is uintptr(unsafe.Pointer(&s)), the address of the parameter s.
NewString(p) ==
    Or(Or(NaNMask, Shl(tagString, TagShift)), And(p, PayloadMask))

ToString(x) == Deref(Payload(x))

IsString(x) == ~IsFloat64(x) /\ Tag(x) = tagString

\* p is uintptr(unsafe.Pointer(&a)), the address of the parameter a.
NewArray(p) ==
    Or(Or(NaNMask, Shl(TagArray, TagShift)), And(p, PayloadMask))

ToArray(x) == Deref(Payload(x))

IsArray(x) == ~IsFloat64(x) /\ Tag(x) = TagArray

\* p is uintptr(unsafe.Pointer(&o)), the address of the parameter o.
NewObject(p) ==
    Or(Or(NaNMask, Shl(TagObject, TagShift)), And(p, PayloadMask))

ToObject(x) == Deref(Payload(x))

IsObject(x) == ~IsFloat64(x) /\ Tag(x) = TagObject

IsPointer(x) == ~IsFloat64(x) /\ (Tag(x) = TagArray \/ Tag(x) = TagObject)

ToPointer(x) == Payload(x)

(***************************************************************************)
(* Inputs                                                                  *)
(***************************************************************************)
\* float64 arguments, by bit pattern, each with its IEEE-754 class.
Floats ==
    { [bits |-> {},                      class |-> "zero"],      \* 0.0
      [bits |-> {63},                    class |-> "zero"],      \* -0.0
      [bits |-> {0},                     class |-> "finite"],    \* smallest subnormal
      [bits |-> 52..61,                  class |-> "finite"],    \* 1.0
      [bits |-> (52..61) \cup {47},      class |-> "finite"],    \* 0x3FF0800000000000
      [bits |-> (0..51) \cup (53..62),   class |-> "finite"],    \* math.MaxFloat64
      [bits |-> 52..62,                  class |-> "inf"],       \* +Inf
      [bits |-> 52..63,                  class |-> "inf"],       \* -Inf
      [bits |-> (51..62) \cup {0},       class |-> "qnan"],      \* math.NaN()
      [bits |-> (51..62) \cup {47, 2},   class |-> "qnan"],      \* 0x7FF8800000000004
      [bits |-> (52..62) \cup {0},       class |-> "snan"] }     \* 0x7FF0000000000001

\* int32 arguments.
Int32s == {0, 1, -1, 2, 12, MaxInt32, MinInt32}

\* Tag arguments of SetTag: the six constants, an undeclared tag, and a
\* value wider than four bits (0x10011).
SixTags == {TagNumber, tagString, TagBool, TagArray, TagObject, TagNull}

TagArgs == SixTags \cup {Bits(6), Bits(65553)}

\* uint64 arguments of SetPayload.
PayloadArgs == {Bits(0), Bits(MaxInt32), WordBits}

\* Addresses of a parameter: one that fits 47 bits, one with bit 47 set,
\* one in the upper half of the address space.
Addrs == {{3, 12, 40}, {3, 12, 47}, {4} \cup (47..63)}

Strings == {"Once"}

Arrays == {<<NewNumber(1), NewNumber(2)>>}

Objects == {[key1 |-> NewNumber(1), key2 |-> NewNumber(2)]}

(***************************************************************************)
(* The state machine                                                       *)
(***************************************************************************)
\* var x Box: the zero value, 0.0.
Init ==
    /\ box = Bits(0)
    /\ ctor = [op |-> "zero"]
    /\ hist = <<>>
    /\ mem = NoCell

CallNewFloat ==
    \E f \in Floats :
        /\ box' = NewFloat(f.bits)
        /\ ctor' = [op |-> "NewFloat", arg |-> f.bits, class |-> f.class]
        /\ hist' = <<>>
        /\ mem' = NoCell

CallNewNumber ==
    \E n \in Int32s :
        /\ box' = NewNumber(n)
        /\ ctor' = [op |-> "NewNumber", arg |-> n]
        /\ hist' = <<>>
        /\ mem' = NoCell

CallNewBool ==
    \E b \in BOOLEAN :
        /\ box' = NewBool(b)
        /\ ctor' = [op |-> "NewBool", arg |-> b]
        /\ hist' = <<>>
        /\ mem' = NoCell

CallNewNull ==
    /\ box' = NewNull
    /\ ctor' = [op |-> "NewNull"]
    /\ hist' = <<>>
    /\ mem' = NoCell

CallNewString ==
    \E s \in Strings, p \in Addrs :
        /\ box' = NewString(p)
        /\ ctor' = [op |-> "NewString", arg |-> s, addr |-> p]
        /\ hist' = <<>>
        /\ mem' = [q \in {p} |-> StringCell(s)]

CallNewArray ==
    \E a \in Arrays, p \in Addrs :
        /\ box' = NewArray(p)
        /\ ctor' = [op |-> "NewArray", arg |-> a, addr |-> p]
        /\ hist' = <<>>
        /\ mem' = [q \in {p} |-> ArrayCell(a)]

CallNewObject ==
    \E o \in Objects, p \in Addrs :
        /\ box' = NewObject(p)
        /\ ctor' = [op |-> "NewObject", arg |-> o, addr |-> p]
        /\ hist' = <<>>
        /\ mem' = [q \in {p} |-> ObjectCell(o)]

\* The constructor has returned: its parameter's cell is overwritten by a
\* later call's frame, or left behind when the stack is moved.
ReuseFrame ==
    \E p \in DOMAIN mem :
        /\ mem[p] # Junk
        /\ mem' = [mem EXCEPT ![p] = Junk]
        /\ UNCHANGED <<box, ctor, hist>>

CallSetTag ==
    /\ Len(hist) < MaxMutations
    /\ \E t \in TagArgs :
        /\ box' = SetTag(box, t)
        /\ hist' = Append(hist, [op |-> "SetTag", arg |-> t, pre |-> box])
    /\ UNCHANGED <<ctor, mem>>

CallSetPayload ==
    /\ Len(hist) < MaxMutations
    /\ \E u \in PayloadArgs :
        /\ box' = SetPayload(box, u)
        /\ hist' = Append(hist, [op |-> "SetPayload", arg |-> u, pre |-> box])
    /\ UNCHANGED <<ctor, mem>>

Next ==
    \/ CallNewFloat
    \/ CallNewNumber
    \/ CallNewBool
    \/ CallNewNull
    \/ CallNewString
    \/ CallNewArray
    \/ CallNewObject
    \/ ReuseFrame
    \/ CallSetTag
    \/ CallSetPayload

Spec == Init /\ [][Next]_vars

(***************************************************************************)
(* Properties                                                              *)
(***************************************************************************)
Constructors ==
    {"NewFloat", "NewNumber", "NewBool", "NewString", "NewArray",
     "NewObject", "NewNull"}

RefConstructors == {"NewString", "NewArray", "NewObject"}

NaNClasses == {"qnan", "snan"}

\* The most recent mutator call.
Last == hist[Len(hist)]

\* How many of the seven type predicates hold of x.
Predicates(x) ==
    <<IsFloat64(x), IsNumber(x), IsBool(x), IsString(x), IsArray(x),
      IsObject(x), IsNull(x)>>

TrueCount(x) == Cardinality({k \in 1..7 : Predicates(x)[k]})

\* The fields of a double, read arithmetically.
Exponent(x) == Weight(And(Shr(x, 52), Bits(2047)))

Mantissa(x) == And(x, 0..51)

\* Either an ordinary double, or the NaN mask with one of the six tags.
DeclaredShape(x) ==
    \/ ~(Exponent(x) = 2047 /\ Mantissa(x) # {})
    \/ (NaNMask \subseteq x /\ Tag(x) \in SixTags)

\* C1: for every int32 n, including negative n, INT32_MIN and INT32_MAX,
\* the box b = NewNumber(n) satisfies ToNumber(b) = n, IsNumber(b) and
\* not IsFloat64(b).
NumberRoundTrip ==
    (ctor.op = "NewNumber" /\ hist = <<>>) =>
        /\ ToNumber(box) = ctor.arg
        /\ IsNumber(box)
        /\ ~IsFloat64(box)

NumberRoundTripWitness ==
    /\ ctor.op = "NewNumber"
    /\ hist = <<>>
    /\ ctor.arg = MinInt32
    /\ ToNumber(box) = MinInt32

\* C2 as stated: for every Box returned by a constructor, NewFloat taken
\* over every float64, exactly one of the seven predicates is true.
ExactlyOnePredicate ==
    (ctor.op \in Constructors /\ hist = <<>>) => TrueCount(box) = 1

\* C2 as amended: for every Box returned by a constructor, NewFloat taken
\* over every float64 except the NaNs whose bits 50..47 are none of the six
\* tags, exactly one of the seven predicates is true.
ExactlyOnePredicateAmended ==
    ( /\ ctor.op \in Constructors
      /\ hist = <<>>
      /\ ctor.op = "NewFloat" =>
            (ctor.class \notin NaNClasses \/ Tag(ctor.arg) \in SixTags) )
    => TrueCount(box) = 1

ExactlyOnePredicateWitness ==
    /\ ctor.op = "NewFloat"
    /\ hist = <<>>
    /\ ctor.class = "finite"
    /\ Tag(box) = TagNumber
    /\ IsFloat64(box)
    /\ TrueCount(box) = 1

\* C3 as stated (invariant I1): from a Box returned by any constructor and
\* after any sequence of SetTag and SetPayload calls with arbitrary
\* arguments, the pattern is a non-NaN double or has bits 62..51 set and
\* one of the six tags in bits 50..47.
TagInvariantI1 == ctor.op \in Constructors => DeclaredShape(box)

OnlyDeclaredTags ==
    \A i \in 1..Len(hist) : hist[i].op = "SetTag" => hist[i].arg \in SixTags

\* C3 as amended: from a Box returned by any constructor (NewFloat of a
\* non-NaN float64 only), after any sequence of SetTag calls whose argument
\* is one of the six tags and SetPayload calls with arbitrary arguments, in
\* which the first mutator applied to a NewFloat box is a SetTag, the
\* pattern is a non-NaN double or has bits 62..51 set and one of the six
\* tags in bits 50..47.
TagInvariantAmended ==
    ( /\ ctor.op \in Constructors
      /\ OnlyDeclaredTags
      /\ ctor.op = "NewFloat" =>
            /\ ctor.class \notin NaNClasses
            /\ hist # <<>> => hist[1].op = "SetTag" )
    => DeclaredShape(box)

TagInvariantWitness ==
    /\ ctor.op = "NewFloat"
    /\ ctor.class = "finite"
    /\ Len(hist) = 2
    /\ hist[1].op = "SetTag"
    /\ hist[1].arg = TagNull
    /\ hist[2].op = "SetPayload"
    /\ hist[2].arg = WordBits
    /\ Tag(box) = TagNull

\* C4: after x.SetTag(t) with t one of the six tags, x.Tag() = t and
\* x.Payload() is the payload before the call; NewNumber(n), then
\* SetTag(tagString), then SetTag(TagNumber) gives a box whose ToNumber()
\* is n.
SetTagKeepsPayload ==
    /\ (hist # <<>> /\ Last.op = "SetTag" /\ Last.arg \in SixTags) =>
            /\ Tag(box) = Last.arg
            /\ Payload(box) = Payload(Last.pre)
    /\ ( /\ ctor.op = "NewNumber"
         /\ Len(hist) = 2
         /\ hist[1].op = "SetTag" /\ hist[1].arg = tagString
         /\ hist[2].op = "SetTag" /\ hist[2].arg = TagNumber )
       => ToNumber(box) = ctor.arg

SetTagKeepsPayloadWitness ==
    /\ ctor.op = "NewNumber"
    /\ ctor.arg = -1
    /\ Len(hist) = 2
    /\ hist[1].op = "SetTag" /\ hist[1].arg = tagString
    /\ hist[2].op = "SetTag" /\ hist[2].arg = TagNumber
    /\ Tag(hist[2].pre) = tagString
    /\ ToNumber(box) = -1

\* C5: after x.SetPayload(p), whatever the tag field of x was, x.Tag() is
\* what it was before the call and x.Payload() is the low 47 bits of p.
SetPayloadKeepsTag ==
    (hist # <<>> /\ Last.op = "SetPayload") =>
        /\ Tag(box) = Tag(Last.pre)
        /\ Payload(box) = And(Last.arg, PayloadMask)

SetPayloadKeepsTagWitness ==
    /\ Len(hist) = 2
    /\ hist[1].op = "SetTag"
    /\ hist[1].arg = Bits(6)
    /\ Last.op = "SetPayload"
    /\ Last.arg = WordBits
    /\ Tag(box) = Bits(6)
    /\ Payload(box) = PayloadMask

\* C6: after every call in a sequence of SetTag and SetPayload calls, from
\* any starting Box and with any arguments, all bits of NaNMask are set and
\* IsFloat64() is false.
MutatorsAssertNaNMask ==
    hist # <<>> => (NaNMask \subseteq box /\ ~IsFloat64(box))

MutatorsAssertNaNMaskWitness ==
    /\ ctor.op = "NewFloat"
    /\ ctor.class = "finite"
    /\ IsFloat64(ctor.arg)
    /\ Len(hist) = 2
    /\ hist[1].arg = Bits(65553)
    /\ ~IsFloat64(box)

\* The tag a reference constructor stores.
KindTag(op) ==
    IF op = "NewString" THEN tagString
    ELSE IF op = "NewArray" THEN TagArray
    ELSE TagObject

\* C7: a reference constructor called with a referent at address a gives a
\* box with IsFloat64() false, Tag() the kind and Payload() the low 47 bits
\* of a; when a fits 47 bits, ToPointer() is a and the typed accessor reads
\* the referent that was boxed, with the same elements, the Number boxes
\* in it still reading 1 and 2.
ReferenceRoundTrip ==
    (ctor.op \in RefConstructors /\ hist = <<>>) =>
        /\ ~IsFloat64(box)
        /\ Tag(box) = KindTag(ctor.op)
        /\ Payload(box) = And(ctor.addr, PayloadMask)
        /\ ctor.addr \subseteq PayloadMask =>
            /\ ToPointer(box) = ctor.addr
            /\ ctor.op = "NewString" => ToString(box) = StringCell(ctor.arg)
            /\ ctor.op = "NewArray" =>
                /\ ToArray(box) = ArrayCell(ctor.arg)
                /\ \A i \in 1..2 : ToNumber(ToArray(box).val[i]) = i
            /\ ctor.op = "NewObject" =>
                /\ ToObject(box) = ObjectCell(ctor.arg)
                /\ ToNumber(ToObject(box).val.key1) = 1
                /\ ToNumber(ToObject(box).val.key2) = 2

\* C8: for every Box x, IsPointer(x) is true exactly when x is not a float
\* and its tag is TagArray, TagObject or tagString.
IsPointerIsReference ==
    IsPointer(box) =
        (~IsFloat64(box) /\ Tag(box) \in {TagArray, TagObject, tagString})

\* C9 as stated: IsFloat64 is false exactly for the patterns with exponent
\* bits 62..52 and the quiet bit 51 all set, and true for every other
\* pattern, the NaNs with a clear quiet bit included.
IsFloat64IsNotQuietNaN ==
    IsFloat64(box) = ~(Exponent(box) = 2047 /\ 51 \in box)

\* C9 as amended: IsFloat64 is false exactly for the NaN patterns, quiet or
\* signaling (exponent bits 62..52 all set and a non-zero mantissa), and
\* true for every other pattern; NewFloat(f) satisfies IsFloat64() exactly
\* when f is not a NaN.
IsFloat64IsNotNaN ==
    /\ IsFloat64(box) = ~(Exponent(box) = 2047 /\ Mantissa(box) # {})
    /\ (ctor.op = "NewFloat" /\ hist = <<>>) =>
            (IsFloat64(box) = (ctor.class \notin NaNClasses))

IsFloat64IsNotNaNWitness ==
    /\ ctor.op = "NewFloat"
    /\ hist = <<>>
    /\ ctor.class = "snan"
    /\ 51 \notin box
    /\ ~IsFloat64(box)

\* C10: for each bool b, x = NewBool(b) satisfies ToBool(x) = b, IsFloat64(x)
\* false, Tag(x) = TagBool, and Payload(x) is 1 for true and 0 for false.
BoolRoundTrip ==
    (ctor.op = "NewBool" /\ hist = <<>>) =>
        /\ ToBool(box) = ctor.arg
        /\ ~IsFloat64(box)
        /\ Tag(box) = TagBool
        /\ Payload(box) = (IF ctor.arg THEN Bits(1) ELSE Bits(0))

BoolRoundTripWitness ==
    /\ ctor.op = "NewBool"
    /\ hist = <<>>
    /\ ctor.arg = TRUE
    /\ ToBool(box)
    /\ Payload(box) = Bits(1)

====
